---- MODULE Spec2Model ----
(***************************************************************************)
(* RDMC Registry Service: the manifest mapper (rdmc_mapping.py), the       *)
(* ingest and read handlers (api.py), the request-scoped session (db.py)   *)
(* and the two tables (models.py).                                         *)
(*                                                                         *)
(* Python values are tagged records, so that values of different Python   *)
(* types can be compared.  A Python str is a sequence of one-character     *)
(* strings (so that strip() and lower() are computed, not looked up);      *)
(* dict keys, which the code only ever writes as literals, are TLA+        *)
(* strings.                                                                *)
(***************************************************************************)
EXTENDS Integers, Sequences, FiniteSets, TLC

VARIABLES
    rdmc,        \* committed rows of table rdmc (a set of records)
    contrib,     \* committed rows of table rdmc_contributor (a set of records)
    seq,         \* the two id sequences: [rdmc |-> next id, contrib |-> next id]
    now,         \* the store's clock (func.now())
    tx,          \* the ingest request in flight in each session
    resp,        \* the last HTTP response delivered
    hist,        \* history: what has been committed, and the store as a failed ingest found it
    doc,         \* mapper specification: the manifest handed to the mapper
    mapped       \* mapper specification: what the mapper returned (or that it raised)

vars == <<rdmc, contrib, seq, now, tx, resp, hist, doc, mapped>>

----------------------------------------------------------------------------
(* Python values *)

JNull == [t |-> "null"]
JStr(s) == [t |-> "str", s |-> s]
JInt(n) == [t |-> "int", n |-> n]
JBool(b) == [t |-> "bool", b |-> b]
JList(l) == [t |-> "list", l |-> l]
JObj(f) == [t |-> "obj", o |-> f]
\* a key of a dict, as iterating the dict yields it: a str, of which the code
\* only ever asks .get
JKey(k) == [t |-> "key", k |-> k]

EmptyObj == <<>>

IsStr(v) == v.t = "str"
IsObj(v) == v.t = "obj"

\* bool(v)
Truthy(v) ==
    CASE v.t = "null" -> FALSE
      [] v.t = "str"  -> Len(v.s) > 0
      [] v.t = "int"  -> v.n # 0
      [] v.t = "bool" -> v.b
      [] v.t = "list" -> Len(v.l) > 0
      [] v.t = "obj"  -> DOMAIN v.o # {}
      [] v.t = "key"  -> TRUE

\* a or b
Or(a, b) == IF Truthy(a) THEN a ELSE b

\* d.get(k) and d.get(k, default), d a dict
Get(d, k) == IF k \in DOMAIN d.o THEN d.o[k] ELSE JNull
GetD(d, k, default) == IF k \in DOMAIN d.o THEN d.o[k] ELSE default

\* len(v) is defined (else TypeError)
HasLen(v) == v.t \in {"str", "list", "obj"}

RECURSIVE SetToSeq(_)
SetToSeq(S) ==
    IF S = {} THEN <<>>
    ELSE LET x == CHOOSE y \in S : TRUE IN <<x>> \o SetToSeq(S \ {x})

\* what iterating v yields: the elements of a list, the characters of a str,
\* the keys of a dict
Items(v) ==
    CASE v.t = "list" -> v.l
      [] v.t = "str"  -> [i \in 1..Len(v.s) |-> JStr(<<v.s[i]>>)]
      [] v.t = "obj"  -> [i \in 1..Cardinality(DOMAIN v.o) |-> JKey(SetToSeq(DOMAIN v.o)[i])]

PyLen(v) == Len(Items(v))

----------------------------------------------------------------------------
(* str methods *)

Whitespace == {" ", "\t", "\n", "\r"}

RECURSIVE LStrip(_)
LStrip(s) == IF s # <<>> /\ Head(s) \in Whitespace THEN LStrip(Tail(s)) ELSE s

RECURSIVE RStrip(_)
RStrip(s) ==
    IF s # <<>> /\ s[Len(s)] \in Whitespace THEN RStrip(SubSeq(s, 1, Len(s) - 1)) ELSE s

\* s.strip()
Strip(s) == RStrip(LStrip(s))

UpperCase == <<"A","B","C","D","E","F","G","H","I","J","K","L","M",
               "N","O","P","Q","R","S","T","U","V","W","X","Y","Z">>
LowerCase == <<"a","b","c","d","e","f","g","h","i","j","k","l","m",
               "n","o","p","q","r","s","t","u","v","w","x","y","z">>

LowerChar(c) ==
    IF \E i \in 1..Len(UpperCase) : UpperCase[i] = c
    THEN LowerCase[CHOOSE i \in 1..Len(UpperCase) : UpperCase[i] = c]
    ELSE c

\* s.lower()
Lower(s) == [i \in 1..Len(s) |-> LowerChar(s[i])]

DigitChar == <<"0","1","2","3","4","5","6","7","8","9">>

RECURSIVE Digits(_)
Digits(n) == IF n < 10 THEN <<DigitChar[n + 1]>> ELSE Digits(n \div 10) \o <<DigitChar[(n % 10) + 1]>>

\* f"{v}" for the scalar values
PyStr(v) ==
    CASE v.t = "str"  -> v.s
      [] v.t = "int"  -> IF v.n < 0 THEN <<"-">> \o Digits(0 - v.n) ELSE Digits(v.n)
      [] v.t = "bool" -> IF v.b THEN <<"T","r","u","e">> ELSE <<"F","a","l","s","e">>

\* sep.join(parts)
RECURSIVE Join(_, _)
Join(parts, sep) ==
    IF parts = <<>> THEN <<>>
    ELSE IF Len(parts) = 1 THEN parts[1]
    ELSE parts[1] \o sep \o Join(Tail(parts), sep)

\* the string literals of rdmc_mapping.py
S_public == <<"p","u","b","l","i","c">>
S_restricted == <<"r","e","s","t","r","i","c","t","e","d">>
S_private == <<"p","r","i","v","a","t","e">>
S_data == <<"d","a","t","a">>
S_software == <<"s","o","f","t","w","a","r","e">>
S_no_title == <<"(","n","o"," ","t","i","t","l","e",")">>
S_orcid == <<","," ","O","R","C","I","D",":"," ">>

----------------------------------------------------------------------------
(* rdmc_mapping.py: derive_fields_from_manifest *)

EmptyStr == JStr(<<>>)
EmptyList == JList(<<>>)

\* line 36
rdmc_metadata(manifest) == Or(GetD(manifest, "RDMC Metadata", JObj(EmptyObj)), JObj(EmptyObj))

\* line 48 (rdmc_metadata is a dict here)
contributors(manifest) == Or(GetD(rdmc_metadata(manifest), "Contributors", EmptyList), EmptyList)

\* lines 56-57: (c.get(key) or "").strip()
NameValue(c, key) == Or(Get(c, key), EmptyStr)
NameOf(c, key) == Strip(NameValue(c, key).s)

\* lines 56-61 raise AttributeError: c is no dict, or a name is a truthy non-str
ContributorRaises(c) ==
    IF ~IsObj(c) THEN TRUE
    ELSE ~IsStr(NameValue(c, "first_name")) \/ ~IsStr(NameValue(c, "last_name"))

\* lines 64-74; pos is the 0-based index of enumerate()
contributor_row(pos, c) ==
    [position    |-> pos,
     first_name  |-> NameOf(c, "first_name"),
     last_name   |-> NameOf(c, "last_name"),
     email       |-> Get(c, "email"),
     affiliation |-> Get(c, "affiliation"),
     orcid       |-> Get(c, "orcid"),
     role        |-> Get(c, "role")]

\* lines 78-84
piece(c) ==
    LET first == NameOf(c, "first_name")
        last == NameOf(c, "last_name")
        role == Get(c, "role")
        orcid == Get(c, "orcid")
        affiliation == Get(c, "affiliation")
        p0 == Strip(first \o <<" ">> \o last)
        p1 == IF Truthy(role) THEN p0 \o <<" ", "(">> \o PyStr(role) \o <<")">> ELSE p0
        p2 == IF Truthy(orcid) THEN p1 \o S_orcid \o PyStr(orcid) ELSE p1
        p3 == IF Truthy(affiliation) THEN p2 \o <<",", " ">> \o PyStr(affiliation) ELSE p2
    IN p3

\* lines 54-86, the loop over enumerate(contributors): the rows and the parts
RECURSIVE contributor_loop(_, _, _)
contributor_loop(items, pos, acc) ==
    IF pos >= Len(items) THEN acc
    ELSE LET c == items[pos + 1]
             p == piece(c)
         IN contributor_loop(items, pos + 1,
                [rows  |-> Append(acc.rows, contributor_row(pos, c)),
                 parts |-> IF p # <<>> THEN Append(acc.parts, p) ELSE acc.parts])

\* line 88
contributors_text_joined_always(parts) == JStr(Join(parts, <<";", " ">>))

contributors_text(parts) == IF parts # <<>> THEN JStr(Join(parts, <<";", " ">>)) ELSE JNull

\* line 94
artifacts_details(manifest) == Or(GetD(manifest, "Artifacts Details", EmptyList), EmptyList)

\* lines 115, 122: art.get(key, []) or []
ResourceList(art, key) == Or(GetD(art, key, EmptyList), EmptyList)

\* lines 116, 123: (file_.get("resource type") or "")
ResourceType(f) == Or(Get(f, "resource type"), EmptyStr)

\* lines 115-127 raise: the list is not iterable, an entry is no dict, or a
\* resource type is a truthy non-str
ResourcesRaise(v) ==
    IF ~HasLen(v) THEN TRUE
    ELSE \E i \in 1..PyLen(v) :
            IF ~IsObj(Items(v)[i]) THEN TRUE ELSE ~IsStr(ResourceType(Items(v)[i]))

\* line 105
AccessLevel(art) == Or(Get(art, "access_level"), EmptyStr)

\* lines 105-132 raise for this entry
ArtifactRaises(art) ==
    IF ~IsObj(art) THEN TRUE
    ELSE \/ ~IsStr(AccessLevel(art))
         \/ ResourcesRaise(ResourceList(art, "files"))
         \/ ResourcesRaise(ResourceList(art, "folders"))
         \/ (Truthy(Get(art, "links")) /\ ~HasLen(Get(art, "links")))

\* lines 115-127: one pass over files (or folders)
RECURSIVE resource_loop(_, _, _)
resource_loop(items, i, flags) ==
    IF i > Len(items) THEN flags
    ELSE LET rtype == Lower(ResourceType(items[i]).s)
         IN resource_loop(items, i + 1,
                IF rtype = S_data THEN [flags EXCEPT !.has_data_resources = TRUE]
                ELSE IF rtype = S_software THEN [flags EXCEPT !.has_software_resources = TRUE]
                ELSE flags)

\* lines 105-132: the body of the loop over artifacts_details
artifact_step_assigns(flags, art) ==
    LET access_level == Lower(AccessLevel(art).s)
        f1 == [flags EXCEPT !.has_public_artifacts = (access_level = S_public),
                            !.has_restricted_artifacts = (access_level = S_restricted),
                            !.has_private_artifacts = (access_level = S_private)]
        f2 == resource_loop(Items(ResourceList(art, "files")), 1, f1)
        f3 == resource_loop(Items(ResourceList(art, "folders")), 1, f2)
        links == Get(art, "links")
    IN [f3 EXCEPT !.has_links = Truthy(links) /\ PyLen(links) > 0]

artifact_step(flags, art) ==
    LET access_level == Lower(AccessLevel(art).s)
        f1 == IF access_level = S_public THEN [flags EXCEPT !.has_public_artifacts = TRUE]
              ELSE IF access_level = S_restricted THEN [flags EXCEPT !.has_restricted_artifacts = TRUE]
              ELSE IF access_level = S_private THEN [flags EXCEPT !.has_private_artifacts = TRUE]
              ELSE flags
        f2 == resource_loop(Items(ResourceList(art, "files")), 1, f1)
        f3 == resource_loop(Items(ResourceList(art, "folders")), 1, f2)
        links == Get(art, "links")
    IN IF Truthy(links) /\ PyLen(links) > 0 THEN [f3 EXCEPT !.has_links = TRUE] ELSE f3

\* lines 97-102
NoFlags ==
    [has_public_artifacts |-> FALSE, has_restricted_artifacts |-> FALSE,
     has_private_artifacts |-> FALSE, has_data_resources |-> FALSE,
     has_software_resources |-> FALSE, has_links |-> FALSE]

\* line 104
RECURSIVE artifact_loop(_, _, _)
artifact_loop(items, i, flags) ==
    IF i > Len(items) THEN flags
    ELSE artifact_loop(items, i + 1, artifact_step(flags, items[i]))

\* the call raises (AttributeError or TypeError) instead of returning
MapperRaises(manifest) ==
    IF ~IsObj(rdmc_metadata(manifest)) THEN TRUE                        \* line 37
    ELSE IF ~HasLen(contributors(manifest)) THEN TRUE                   \* line 49
    ELSE IF \E i \in 1..PyLen(contributors(manifest)) :
                ContributorRaises(Items(contributors(manifest))[i]) THEN TRUE
    ELSE IF ~HasLen(artifacts_details(manifest)) THEN TRUE              \* line 95
    ELSE \E i \in 1..PyLen(artifacts_details(manifest)) :
                ArtifactRaises(Items(artifacts_details(manifest))[i])

\* lines 28-157
derive_fields_from_manifest(manifest) ==
    IF MapperRaises(manifest) THEN [raised |-> TRUE]
    ELSE
    LET md == rdmc_metadata(manifest)
        title == Or(Get(manifest, "RDMC Title"), Get(manifest, "title"))
        loop == contributor_loop(Items(contributors(manifest)), 0, [rows |-> <<>>, parts |-> <<>>])
        flags == artifact_loop(Items(artifacts_details(manifest)), 1, NoFlags)
    IN [raised |-> FALSE,
        rdmc_fields |->
          [title |-> Or(title, JStr(S_no_title)),
           rdmc_version |-> Get(manifest, "RDMC Version"),
           manifest_schema_version |-> Get(manifest, "Manifest-Schemaversion"),
           manifest_file_path |-> Get(manifest, "Manifest File Path"),
           description |-> Get(md, "Description"),
           subject |-> Get(md, "Subject"),
           license |-> Get(md, "License"),
           keywords_raw |-> Get(md, "Keywords"),
           container_concept |-> Get(md, "container-concept"),
           contributors_count |-> PyLen(contributors(manifest)),
           contributors_text |-> contributors_text(loop.parts),
           artifacts_raw |-> Get(manifest, "Artifacts"),
           artifact_count |-> PyLen(artifacts_details(manifest)),
           has_public_artifacts |-> flags.has_public_artifacts,
           has_restricted_artifacts |-> flags.has_restricted_artifacts,
           has_private_artifacts |-> flags.has_private_artifacts,
           has_data_resources |-> flags.has_data_resources,
           has_software_resources |-> flags.has_software_resources,
           has_links |-> flags.has_links],
        contributor_rows |-> loop.rows]

----------------------------------------------------------------------------
(* The requests the model issues *)

\* how many ingest requests one behaviour issues
MaxIngests == 3

X1 == <<"x","1">>
X2 == <<"x","2">>
ExternalIds == {X1, X2}

\* contributor entries of the manifests
CAda == JObj([first_name |-> JStr(<<" ","A","d","a">>), last_name |-> JStr(<<"L">>),
              role |-> JStr(<<"P","I">>), orcid |-> JStr(<<"o","1">>),
              email |-> JStr(<<"e","1">>), affiliation |-> JStr(<<"X">>)])
CBob == JObj([first_name |-> JStr(<<"B","o","b">>), orcid |-> JStr(<<"o","2">>)])
CAnon == JObj([email |-> JStr(<<"e","1">>)])

\* three contributors, every summary field, one public artifact with a data file
ManifestA ==
    JObj(("RDMC Title" :> JStr(<<"A">>)) @@
         ("RDMC Version" :> JStr(<<"1">>)) @@
         ("RDMC Metadata" :>
             JObj([Subject |-> JStr(<<"s">>), License |-> JStr(<<"l">>),
                   Contributors |-> JList(<<CAda, CBob, CAnon>>)])) @@
         ("Artifacts Details" :>
             JList(<<JObj([access_level |-> JStr(<<"P","u","b","l","i","c">>),
                           files |-> JList(<<JObj(("resource type" :> JStr(S_data)))>>)])>>)))

\* one contributor, no title, no subject
ManifestB ==
    JObj(("RDMC Metadata" :> JObj([Contributors |-> JList(<<CBob>>)])))

\* the empty document
ManifestE == JObj(EmptyObj)

\* "RDMC Metadata" is a string
ManifestX == JObj(("RDMC Metadata" :> JStr(<<"x">>)))

Manifests == {ManifestA, ManifestB, ManifestE, ManifestX}

P1 == JStr(<<"p","1">>)
P2 == JStr(<<"p","2">>)

\* a body of POST /rdmcs (schemas.py, RdmcIn)
RdmcIn(external_id, external_id_scheme, pid, pid_scheme, manifest) ==
    [external_id |-> external_id, external_id_scheme |-> external_id_scheme,
     pid |-> pid, pid_scheme |-> pid_scheme, manifest |-> manifest]

\* the bodies the model posts: the manifests without PID, one external_id
\* under a second scheme, and the PID variants (the same pid for two
\* external_ids, a second pid, the empty pid, a scheme alone)
Payloads ==
    {RdmcIn(x, JNull, JNull, JNull, m) : x \in ExternalIds, m \in {ManifestA, ManifestB}}
    \cup {RdmcIn(X1, JNull, JNull, JNull, m) : m \in {ManifestE, ManifestX}}
    \cup {RdmcIn(X1, JStr(<<"s">>), JNull, JNull, ManifestA)}
    \cup {RdmcIn(x, JNull, P1, JStr(<<"d">>), ManifestB) : x \in ExternalIds}
    \cup {RdmcIn(X1, JNull, pp[1], pp[2], ManifestB) :
            pp \in {<<EmptyStr, EmptyStr>>, <<P2, JNull>>, <<JNull, JStr(<<"h">>)>>}}

\* the bodies posted while reads are served
ReadPayloads ==
    {RdmcIn(X1, JNull, JNull, JNull, m) : m \in {ManifestA, ManifestB, ManifestX}}
    \cup {RdmcIn(X2, JNull, JNull, JNull, ManifestA)}

\* the bodies posted by two clients at once
ConcurrentPayloads ==
    {RdmcIn(X1, JNull, JNull, JNull, m) : m \in {ManifestA, ManifestB}}

----------------------------------------------------------------------------
(* models.py: the two tables *)

NoRow == [id |-> 0]

S_pending == <<"p","e","n","d","i","n","g">>
S_minted == <<"m","i","n","t","e","d">>

\* the columns of rdmc the mapper fills (api.py lines 59-80)
MappedColumns ==
    {"title", "rdmc_version", "manifest_schema_version", "manifest_file_path",
     "description", "subject", "license", "keywords_raw", "container_concept",
     "contributors_count", "contributors_text", "artifacts_raw", "artifact_count",
     "has_public_artifacts", "has_restricted_artifacts", "has_private_artifacts",
     "has_data_resources", "has_software_resources", "has_links"}

\* Rdmc(external_id=...): a new object, every other attribute None
Rdmc(external_id) ==
    [c \in MappedColumns |-> JNull] @@
    [id |-> 0, external_id |-> external_id, external_id_scheme |-> JNull,
     pid |-> JNull, pid_scheme |-> JNull, pid_status |-> JNull,
     manifest |-> JNull, created_at |-> 0, updated_at |-> 0]

\* RdmcContributor(rdmc_id=..., position=..., ...) as the INSERT stores it
RdmcContributor(id, rdmc_id, c, created_at) ==
    [id |-> id, rdmc_id |-> rdmc_id, position |-> c.position,
     first_name |-> c.first_name, last_name |-> c.last_name, email |-> c.email,
     affiliation |-> c.affiliation, orcid |-> c.orcid, role |-> c.role,
     created_at |-> created_at]

----------------------------------------------------------------------------
(* db.py: the session of one request.  A session's statements see the       *)
(* committed rows and the session's own uncommitted writes (PostgreSQL's    *)
(* default isolation, read committed: create_engine sets no other); its     *)
(* writes reach the committed tables at commit, all at once.                *)

Sessions == {1, 2}

Idle == [pc |-> "idle"]

Active(s) == tx[s].pc # "idle"

\* the committed tables
Store == [rdmc |-> rdmc, contrib |-> contrib]

\* the rows the session wrote and has not committed, applied to the tables:
\* the parent row flushed, the contributor rows deleted, and the new
\* contributor rows, which get the ids nextval hands out
Apply(db, t, next_id) ==
    [rdmc |-> IF t.wrote = NoRow THEN db.rdmc
              ELSE {r \in db.rdmc : r.id # t.wrote.id} \cup {t.wrote},
     contrib |-> {c \in db.contrib : c.id \notin t.deleted}
                 \cup {RdmcContributor(next_id + i - 1, t.obj.id, t.rows[i], t.start) :
                         i \in 1..Len(t.rows)}]

\* api.py lines 94-107: the pending contributor INSERTs are flushed and the
\* transaction commits
commit_without_contributors(db, t, next_id) ==
    Apply(db, [t EXCEPT !.rows = <<>>], next_id)

commit_append(db, t, next_id) ==
    Apply(db, [t EXCEPT !.deleted = {}], next_id)

commit(db, t, next_id) == Apply(db, t, next_id)

\* db.py lines 63-64: Session.close() rolls the open transaction back
close_commits(db, t) == Apply(db, [t EXCEPT !.rows = <<>>], 0)

close(db, t) == db

----------------------------------------------------------------------------
(* api.py: ingest_rdmc, statement by statement *)

NoResp == [status |-> 0]

Response(status, handler, queried, body) ==
    [status |-> status, handler |-> handler, queried |-> queried, body |-> body]

NoDone == [outcome |-> "none"]

\* lines 40-41: the rows select(Rdmc).where(external_id == ...) matches
lookup_key_with_scheme(rows, payload) ==
    {r \in rows : r.external_id = payload.external_id
                  /\ r.external_id_scheme = payload.external_id_scheme}

lookup_unfiltered(rows, payload) == rows

lookup(rows, payload) == {r \in rows : r.external_id = payload.external_id}

\* lines 52-56: identity and PID attributes
pid_always_overwritten(obj, payload) ==
    [obj EXCEPT !.external_id_scheme = payload.external_id_scheme,
                !.pid = payload.pid,
                !.pid_scheme = payload.pid_scheme,
                !.pid_status = IF Truthy(payload.pid) THEN JStr(S_minted) ELSE JStr(S_pending)]

assign_identity(obj, payload) ==
    [obj EXCEPT !.external_id_scheme = payload.external_id_scheme,
                !.pid = Or(payload.pid, obj.pid),
                !.pid_scheme = Or(payload.pid_scheme, obj.pid_scheme),
                !.pid_status = IF Truthy(payload.pid) THEN JStr(S_minted) ELSE @]

\* lines 59-82: every mapped column, and the manifest
mapped_merged(obj, payload, rdmc_fields) ==
    [c \in DOMAIN obj |->
        IF c = "manifest" THEN payload.manifest
        ELSE IF c \in {"description", "subject", "license"}
             THEN (IF rdmc_fields[c] = JNull THEN obj[c] ELSE rdmc_fields[c])
        ELSE IF c \in MappedColumns THEN rdmc_fields[c]
        ELSE obj[c]]

assign_mapped(obj, payload, rdmc_fields) ==
    [c \in DOMAIN obj |->
        IF c = "manifest" THEN payload.manifest
        ELSE IF c \in MappedColumns THEN rdmc_fields[c]
        ELSE obj[c]]

\* line 85, a new object: INSERT; pid_status takes its default, the
\* timestamps their server default now(), the transaction's start time
insert_row(t, id) ==
    [t.obj EXCEPT !.id = id,
                  !.pid_status = IF @ = JNull THEN JStr(S_pending) ELSE @,
                  !.created_at = t.start,
                  !.updated_at = t.start]

\* line 85, a loaded object: the unit of work compares each attribute with
\* the value loaded and UPDATEs the columns that differ
changed_columns(t) == {c \in DOMAIN t.obj : t.obj[c] # t.existing[c]}

\* the UPDATE sets these columns on the row's latest committed version, and
\* updated_at by onupdate=func.now()
update_row(t, latest) ==
    [c \in DOMAIN latest |->
        IF c = "updated_at" THEN t.start
        ELSE IF c \in changed_columns(t) THEN t.obj[c]
        ELSE latest[c]]

\* the rows other sessions wrote and have not committed
PendingOf(s) == {tx[o].wrote : o \in {o \in Sessions \ {s} : Active(o) /\ tx[o].wrote # NoRow}}

\* the contributor rows other sessions deleted and have not committed
DeletedByOthers(s) == UNION {tx[o].deleted : o \in {o \in Sessions \ {s} : Active(o)}}

\* rdmc.pid is unique: the committed rows that hold the pid the session writes
PidHolders(t, id) ==
    IF t.obj.pid = JNull THEN {}
    ELSE {r \in rdmc : r.pid = t.obj.pid /\ r.id # id}

NoPayload == [external_id |-> <<>>]

\* the request ends in an unhandled exception: get_db closes the session
\* and the caller gets 500
Abort(s, t) ==
    /\ rdmc' = close(Store, t).rdmc
    /\ contrib' = close(Store, t).contrib
    /\ tx' = [tx EXCEPT ![s] = Idle]
    /\ resp' = Response(500, "ingest_rdmc", TRUE, JNull)
    /\ hist' = [hist EXCEPT !.done = [outcome |-> "failed", t |-> t]]

\* POST /rdmcs arrives; lines 40-82: the lookup (the session's transaction
\* begins), the mapper, the attribute assignments
ingest_begin(s, payload) ==
    /\ ~Active(s)
    /\ now < MaxIngests
    /\ now' = now + 1
    /\ UNCHANGED <<seq, doc, mapped>>
    /\ LET found == lookup(rdmc, payload)
           derived == derive_fields_from_manifest(payload.manifest)
       IN \E existing \in (IF found = {} THEN {NoRow} ELSE found) :
            LET t == [pc |-> "map", payload |-> payload, existing |-> existing,
                      obj |-> NoRow, rows |-> <<>>, start |-> now + 1,
                      wrote |-> NoRow, targets |-> {}, deleted |-> {},
                      before |-> Store]
            IN IF derived.raised
               THEN Abort(s, t)
               ELSE /\ tx' = [tx EXCEPT ![s] =
                        [t EXCEPT !.pc = "flush",
                                  !.obj = assign_mapped(
                                            assign_identity(
                                              IF existing = NoRow
                                              THEN Rdmc(payload.external_id)
                                              ELSE existing, payload),
                                            payload, derived.rdmc_fields),
                                  !.rows = derived.contributor_rows]]
                    /\ resp' = NoResp
                    /\ hist' = [hist EXCEPT !.done = NoDone]
                    /\ UNCHANGED <<rdmc, contrib>>

\* line 85: db.flush() sends the parent's INSERT or UPDATE
ingest_flush(s) ==
    /\ tx[s].pc = "flush"
    /\ UNCHANGED <<now, doc, mapped>>
    /\ LET t == tx[s]
           insert == t.existing = NoRow
           id == IF insert THEN seq.rdmc ELSE t.existing.id
       IN IF ~insert /\ changed_columns(t) = {}
          THEN \* nothing differs from the row loaded: no statement
               /\ tx' = [tx EXCEPT ![s].pc = "delete"]
               /\ resp' = NoResp
               /\ UNCHANGED <<rdmc, contrib, seq, hist>>
          ELSE \* the statement waits for a row another session has written:
               \* the row it updates, or one that holds or releases its pid
               /\ \A w \in PendingOf(s) :
                     /\ w.id # id
                     /\ (t.obj.pid # JNull => w.pid # t.obj.pid)
                     /\ \A r \in PidHolders(t, id) : r.id # w.id
               /\ seq' = IF insert THEN [seq EXCEPT !.rdmc = @ + 1] ELSE seq
               /\ IF PidHolders(t, id) # {}
                  THEN \* IntegrityError: the unique constraint on pid
                       Abort(s, t)
                  ELSE /\ tx' = [tx EXCEPT ![s] =
                            [t EXCEPT !.pc = "delete",
                                      !.obj.id = id,
                                      !.wrote =
                                         IF insert THEN insert_row(t, id)
                                         ELSE update_row(t,
                                                CHOOSE r \in rdmc : r.id = id)]]
                       /\ resp' = NoResp
                       /\ UNCHANGED <<rdmc, contrib, hist>>

\* lines 89-91: the rows DELETE FROM rdmc_contributor WHERE rdmc_id = :id
\* matches
delete_targets_unfiltered(rows, rdmc_id) == {c.id : c \in rows}

delete_targets(rows, rdmc_id) == {c.id : c \in {c \in rows : c.rdmc_id = rdmc_id}}

\* lines 89-91: the DELETE.  The statement fixes its rows when it starts and waits for those another
\* session has deleted and not committed
ingest_delete(s) ==
    /\ tx[s].pc = "delete"
    /\ UNCHANGED <<rdmc, contrib, seq, now, hist, doc, mapped>>
    /\ resp' = NoResp
    /\ LET targets == delete_targets(contrib, tx[s].obj.id)
       IN IF targets \cap DeletedByOthers(s) = {}
          THEN tx' = [tx EXCEPT ![s].pc = "commit", ![s].deleted = targets]
          ELSE tx' = [tx EXCEPT ![s].pc = "delete_wait", ![s].targets = targets]

\* the waiting DELETE goes on once the other session has ended: it deletes
\* those of its rows that are still there, and none inserted since it started
ingest_delete_resume(s) ==
    /\ tx[s].pc = "delete_wait"
    /\ tx[s].targets \cap DeletedByOthers(s) = {}
    /\ UNCHANGED <<rdmc, contrib, seq, now, hist, doc, mapped>>
    /\ resp' = NoResp
    /\ tx' = [tx EXCEPT ![s].pc = "commit",
                        ![s].deleted = {i \in tx[s].targets : \E c \in contrib : c.id = i}]

\* lines 94-110: the contributor INSERTs, the commit, the refresh and the
\* response
ingest_commit(s) ==
    /\ tx[s].pc = "commit"
    /\ UNCHANGED <<now, doc, mapped>>
    /\ LET t == tx[s]
           db == commit(Store, t, seq.contrib)
       IN /\ rdmc' = db.rdmc
          /\ contrib' = db.contrib
          /\ seq' = [seq EXCEPT !.contrib = @ + Len(t.rows)]
          /\ tx' = [tx EXCEPT ![s] = Idle]
          /\ resp' = Response(200, "ingest_rdmc", TRUE,
                              CHOOSE r \in db.rdmc : r.id = t.obj.id)
          /\ hist' = [last |-> [hist.last EXCEPT ![t.payload.external_id] = t.payload],
                      done |-> [outcome |-> "committed", t |-> t,
                                prev |-> hist.last[t.payload.external_id]]]

\* a persistence step raises (the store fails the flush, the delete, a
\* contributor insert or the commit): the exception leaves the handler
ingest_fail(s) ==
    /\ tx[s].pc \in {"flush", "delete", "delete_wait", "commit"}
    /\ UNCHANGED <<seq, now, doc, mapped>>
    /\ Abort(s, tx[s])

----------------------------------------------------------------------------
(* api.py: the router and the read handlers.  A read is one SELECT: it sees *)
(* the committed rows.                                                      *)

S_rdmcs == <<"r","d","m","c","s">>
S_by_contributor == <<"b","y","-","c","o","n","t","r","i","b","u","t","o","r">>

Lit(seg) == [kind |-> "literal", seg |-> seg]
Param(name) == [kind |-> "param", name |-> name]

\* the routes in the order the decorators register them (lines 24, 33, 113,
\* 142, 156)
Routes ==
    << [method |-> "GET",  path |-> <<>>, handler |-> "health_check"],
       [method |-> "POST", path |-> <<Lit(S_rdmcs)>>, handler |-> "ingest_rdmc"],
       [method |-> "GET",  path |-> <<Lit(S_rdmcs)>>, handler |-> "list_rdmcs"],
       [method |-> "GET",  path |-> <<Lit(S_rdmcs), Param("external_id")>>,
        handler |-> "get_rdmc"],
       [method |-> "GET",  path |-> <<Lit(S_rdmcs), Lit(S_by_contributor)>>,
        handler |-> "rdmcs_by_contributor"] >>

\* a path parameter matches any non-empty segment
SegmentMatches(pattern, seg) ==
    IF pattern.kind = "param" THEN seg # <<>> ELSE pattern.seg = seg

RouteMatches(route, method, path) ==
    /\ route.method = method
    /\ Len(route.path) = Len(path)
    /\ \A i \in 1..Len(path) : SegmentMatches(route.path[i], path[i])

\* the router hands the request to the first route that matches; 0: none
Dispatch(method, path) ==
    IF \E i \in 1..Len(Routes) : RouteMatches(Routes[i], method, path)
    THEN CHOOSE i \in 1..Len(Routes) :
            /\ RouteMatches(Routes[i], method, path)
            /\ \A j \in 1..(i - 1) : ~RouteMatches(Routes[j], method, path)
    ELSE 0

\* ORDER BY created_at DESC: the orders the store may return the rows in
OrderedDesc(rows) ==
    {q \in [1..Cardinality(rows) -> rows] :
        /\ \A i, j \in 1..Cardinality(rows) : i # j => q[i] # q[j]
        /\ \A i, j \in 1..Cardinality(rows) : i < j => q[i].created_at >= q[j].created_at}

NoQuery ==
    [subject |-> JNull, license_ |-> JNull, container_concept |-> JNull,
     orcid |-> JNull, email |-> JNull]

Request(path, query) == [method |-> "GET", path |-> path, query |-> query]

\* lines 24-30
health_check == {Response(200, "health_check", FALSE, JNull)}

\* lines 113-139
list_rdmcs(query) ==
    LET rows == {r \in rdmc :
                    /\ Truthy(query.subject) => r.subject = query.subject
                    /\ Truthy(query.license_) => r.license = query.license_
                    /\ Truthy(query.container_concept)
                          => r.container_concept = query.container_concept}
    IN {Response(200, "list_rdmcs", TRUE, q) : q \in OrderedDesc(rows)}

\* lines 142-153
get_rdmc(external_id) ==
    LET found == {r \in rdmc : r.external_id = external_id}
    IN IF found = {} THEN {Response(404, "get_rdmc", TRUE, JNull)}
       ELSE {Response(200, "get_rdmc", TRUE, r) : r \in found}

\* lines 156-186
rdmcs_by_contributor(query) ==
    IF ~Truthy(query.orcid) /\ ~Truthy(query.email)
    THEN {Response(400, "rdmcs_by_contributor", FALSE, JNull)}
    ELSE LET rows == {r \in rdmc : \E c \in contrib :
                        /\ c.rdmc_id = r.id
                        /\ Truthy(query.orcid) => c.orcid = query.orcid
                        /\ Truthy(query.email) => c.email = query.email}
         IN {Response(200, "rdmcs_by_contributor", TRUE, q) : q \in OrderedDesc(rows)}

\* the responses the application may give to a GET request
Handle(request) ==
    LET i == Dispatch(request.method, request.path)
    IN IF i = 0 THEN {Response(404, "none", FALSE, JNull)}
       ELSE CASE Routes[i].handler = "health_check" -> health_check
              [] Routes[i].handler = "list_rdmcs" -> list_rdmcs(request.query)
              [] Routes[i].handler = "get_rdmc" -> get_rdmc(request.path[2])
              [] Routes[i].handler = "rdmcs_by_contributor"
                    -> rdmcs_by_contributor(request.query)

\* the GET requests the model sends
Gets ==
    {Request(<<>>, NoQuery),
     Request(<<S_rdmcs>>, NoQuery),
     Request(<<S_rdmcs>>, [NoQuery EXCEPT !.subject = JStr(<<"s">>)]),
     Request(<<S_rdmcs, X1>>, NoQuery),
     Request(<<S_rdmcs, S_by_contributor>>, NoQuery),
     Request(<<S_rdmcs, S_by_contributor>>, [NoQuery EXCEPT !.orcid = JStr(<<"o","2">>)]),
     Request(<<S_rdmcs, S_by_contributor>>,
             [NoQuery EXCEPT !.orcid = JStr(<<"o","2">>), !.email = JStr(<<"e","1">>)])}

\* a GET request is served
http_get(request) ==
    /\ \E r \in Handle(request) : resp' = [r EXCEPT !.handler = @] @@ [request |-> request]
    /\ UNCHANGED <<rdmc, contrib, seq, now, tx, hist, doc, mapped>>

----------------------------------------------------------------------------
(* Specifications *)

Init ==
    /\ rdmc = {}
    /\ contrib = {}
    /\ seq = [rdmc |-> 1, contrib |-> 1]
    /\ now = 0
    /\ tx = [s \in Sessions |-> Idle]
    /\ resp = NoResp
    /\ hist = [last |-> [x \in ExternalIds |-> NoPayload], done |-> NoDone]
    /\ doc = JNull
    /\ mapped = [called |-> FALSE]

\* ingests issued one after another
Next ==
    \/ \E payload \in Payloads : ingest_begin(1, payload)
    \/ ingest_flush(1)
    \/ ingest_delete(1)
    \/ ingest_commit(1)
    \/ ingest_fail(1)

Spec == Init /\ [][Next]_vars

\* ingests issued one after another, reads served at any moment
NextReads ==
    \/ \E payload \in ReadPayloads : ingest_begin(1, payload)
    \/ ingest_flush(1)
    \/ ingest_delete(1)
    \/ ingest_commit(1)
    \/ ingest_fail(1)
    \/ \E request \in Gets : http_get(request)

SpecReads == Init /\ [][NextReads]_vars

\* two clients ingest at once
NextConcurrent ==
    \/ \E s \in Sessions, payload \in ConcurrentPayloads : ingest_begin(s, payload)
    \/ \E s \in Sessions : ingest_flush(s)
    \/ \E s \in Sessions : ingest_delete(s)
    \/ \E s \in Sessions : ingest_delete_resume(s)
    \/ \E s \in Sessions : ingest_commit(s)
    \/ \E s \in Sessions : ingest_fail(s)

SpecConcurrent == Init /\ [][NextConcurrent]_vars

----------------------------------------------------------------------------
(* The mapper alone, on well-formed and malformed documents *)

\* the longest "Contributors" and "Artifacts Details" lists
MaxEntries == 2

Absent == [t |-> "absent"]

\* the dict with the keys whose value is not Absent
Dict(pairs) ==
    JObj([k \in {p[1] : p \in {p \in pairs : p[2] # Absent}} |->
            (CHOOSE p \in pairs : p[1] = k)[2]])

SeqsUpTo(S, n) == UNION {[1..k -> S] : k \in 0..n}

\* values of the wrong type
WrongShapes ==
    {JNull, JStr(<<"x">>), JInt(3), JInt(0), JBool(TRUE), JObj([a |-> JNull])}

ContributorEntries ==
    {CAda, CBob, JObj(EmptyObj),
     JObj([first_name |-> JStr(<<" ">>), last_name |-> JNull]),
     JObj([first_name |-> JInt(5)]),
     JObj([last_name |-> JStr(<<"Z">>), role |-> JInt(12)]),
     JNull, JStr(<<"x">>)}

ArtifactEntries ==
    {JObj([access_level |-> JStr(<<"P","u","b","l","i","c">>),
           files |-> JList(<<JObj(("resource type" :> JStr(<<"D","a","t","a">>)))>>)]),
     JObj([access_level |-> JStr(S_private),
           folders |-> JList(<<JObj(("resource type" :> JStr(S_software)))>>),
           links |-> JList(<<JStr(<<"u">>)>>)]),
     JObj([access_level |-> JStr(S_restricted), links |-> JList(<<>>)]),
     JObj(EmptyObj),
     JObj([access_level |-> JInt(1)]),
     JObj([files |-> JInt(1)]),
     JObj([folders |-> JList(<<JNull>>)]),
     JObj([files |-> JList(<<JObj(("resource type" :> JInt(5)))>>)]),
     JObj([links |-> JInt(1)]),
     JObj([links |-> JStr(<<"u">>)]),
     JNull, JStr(<<"x">>)}

ContributorsValues ==
    {Absent} \cup WrongShapes
    \cup {JList(l) : l \in SeqsUpTo(ContributorEntries, MaxEntries)}

MetadataValues ==
    {Absent} \cup WrongShapes \cup {JList(<<JNull>>)}
    \cup {Dict({<<"Contributors", c>>, <<"Subject", JStr(<<"s">>)>>}) :
            c \in ContributorsValues}

ArtifactsValues ==
    {Absent} \cup WrongShapes
    \cup {JList(l) : l \in SeqsUpTo(ArtifactEntries, MaxEntries)}

TitleValues == {Absent, JNull, EmptyStr, JStr(<<"T">>)}

Documents ==
    {Dict({<<"RDMC Metadata", md>>}) : md \in MetadataValues}
    \cup {Dict({<<"Artifacts Details", ad>>}) : ad \in ArtifactsValues}
    \cup {Dict({<<"RDMC Title", t1>>, <<"title", t2>>, <<"Artifacts", JStr(<<"a">>)>>}) :
            t1 \in TitleValues, t2 \in TitleValues}

InitMapper ==
    /\ rdmc = {}
    /\ contrib = {}
    /\ seq = [rdmc |-> 1, contrib |-> 1]
    /\ now = 0
    /\ tx = [s \in Sessions |-> Idle]
    /\ resp = NoResp
    /\ hist = [last |-> [x \in ExternalIds |-> NoPayload], done |-> NoDone]
    /\ doc \in Documents
    /\ mapped = [called |-> FALSE]

\* derive_fields_from_manifest is called on the document
map_document ==
    /\ ~mapped.called
    /\ mapped' = [called |-> TRUE, result |-> derive_fields_from_manifest(doc)]
    /\ UNCHANGED <<rdmc, contrib, seq, now, tx, resp, hist, doc>>

NextMapper == map_document

SpecMapper == InitMapper /\ [][NextMapper]_vars

----------------------------------------------------------------------------
(* Properties *)

\* what a contributor row holds besides its keys and its timestamp
RowData(c) ==
    [position |-> c.position, first_name |-> c.first_name, last_name |-> c.last_name,
     email |-> c.email, affiliation |-> c.affiliation, orcid |-> c.orcid,
     role |-> c.role]

\* the contributor rows record r owns
Owned(db, r) == {c \in db.contrib : c.rdmc_id = r.id}

\* the committed records of an external_id
Records(x) == {r \in rdmc : r.external_id = x}

\* the external_ids with a committed ingest
Ingested == {x \in ExternalIds : hist.last[x] # NoPayload}

\* r's rows are the entries of manifest's "Contributors" array, one row per
\* entry, entry i at position i - 1
ExactlyContributorsOf(db, r, manifest) ==
    LET entries == Items(contributors(manifest))
    IN /\ Cardinality(Owned(db, r)) = Len(entries)
       /\ \A i \in 1..Len(entries) :
             \E c \in Owned(db, r) : RowData(c) = contributor_row(i - 1, entries[i])

\* the last ingest committed
Committed == hist.done.outcome = "committed"

\* the record the last ingest wrote, as committed
After == CHOOSE r \in rdmc : r.id = hist.done.t.obj.id

\* the PID attributes the last ingest found: those of the record loaded, or
\* of a new record
Before ==
    IF hist.done.t.existing = NoRow
    THEN [pid |-> JNull, pid_scheme |-> JNull, pid_status |-> JStr(S_pending)]
    ELSE hist.done.t.existing

\* C1: after any sequence of ingests committed one after another, the
\* contributor rows of a record are exactly the contributor entries of the
\* manifest last ingested for its external_id, at positions 0..n-1 in array
\* order, contributors_count is their number, and no row is left without owner
C1_FullReplace ==
    /\ \A x \in Ingested :
          /\ Records(x) # {}
          /\ \A r \in Records(x) :
                /\ ExactlyContributorsOf(Store, r, hist.last[x].manifest)
                /\ {c.position : c \in Owned(Store, r)} = 0..(Cardinality(Owned(Store, r)) - 1)
                /\ r.contributors_count = Cardinality(Owned(Store, r))
    /\ \A c \in contrib : \E r \in rdmc : c.rdmc_id = r.id

\* C1: a 1-contributor manifest was committed over a 3-contributor manifest
C1_Witness ==
    /\ Committed
    /\ hist.done.prev # NoPayload
    /\ hist.done.prev.manifest = ManifestA
    /\ hist.done.t.payload.manifest = ManifestB
    /\ Cardinality(Owned(hist.done.t.before, hist.done.t.existing)) = 3
    /\ Cardinality(Owned(Store, After)) = 1
    /\ After.contributors_count = 1

\* C2: the stored manifest is the manifest last ingested, GET
\* /rdmcs/{external_id} returns it, and every mapped column is the mapper's
\* value for that manifest alone
C2_LastManifest ==
    \A x \in Ingested :
        /\ Records(x) # {}
        /\ \A r \in Records(x) :
              /\ r.manifest = hist.last[x].manifest
              /\ \A c \in MappedColumns :
                    r[c] = derive_fields_from_manifest(hist.last[x].manifest).rdmc_fields[c]
        /\ \A g \in get_rdmc(x) : g.status = 200 /\ g.body.manifest = hist.last[x].manifest

\* C2: a manifest without title and subject was committed over one with both
C2_Witness ==
    /\ Committed
    /\ hist.done.t.existing # NoRow
    /\ hist.done.t.existing.subject = JStr(<<"s">>)
    /\ hist.done.t.existing.title = JStr(<<"A">>)
    /\ hist.done.t.payload.manifest = ManifestB
    /\ After.subject = JNull
    /\ After.title = JStr(S_no_title)

\* the records a reader sees: the committed rows, and those the last read
\* returned
ReaderSees ==
    rdmc \cup
    (IF resp.status = 200 /\ resp.handler = "get_rdmc" THEN {resp.body}
     ELSE IF resp.status = 200 /\ resp.handler = "list_rdmcs"
          THEN {resp.body[i] : i \in 1..Len(resp.body)}
     ELSE {})

\* C3: at every point of an ingest, a record a reader sees and the
\* contributor rows the reader sees with it come from the same ingest: the
\* rows are those of the record's manifest, and so are contributors_count and
\* contributors_text
C3_OneUnit ==
    \A r \in ReaderSees :
        /\ ExactlyContributorsOf(Store, r, r.manifest)
        /\ r.contributors_count =
              derive_fields_from_manifest(r.manifest).rdmc_fields.contributors_count
        /\ r.contributors_text =
              derive_fields_from_manifest(r.manifest).rdmc_fields.contributors_text

\* C3: a read returned the old record while an ingest had flushed the new
\* parent and deleted the old contributors, and had not committed
C3_Witness ==
    /\ tx[1].pc = "commit"
    /\ tx[1].existing # NoRow
    /\ tx[1].wrote # NoRow
    /\ tx[1].wrote.manifest # tx[1].existing.manifest
    /\ tx[1].deleted # {}
    /\ resp.status = 200
    /\ resp.handler = "get_rdmc"
    /\ resp.body = tx[1].existing

\* C4: an ingest that fails leaves the committed tables as it found them,
\* and the caller gets a failure
C4_NoPartialEffect ==
    hist.done.outcome = "failed" =>
        /\ Store = hist.done.t.before
        /\ resp.status = 500

\* C4: the commit failed after the parent was flushed and contributor rows
\* were deleted
C4_Witness ==
    /\ hist.done.outcome = "failed"
    /\ hist.done.t.pc = "commit"
    /\ hist.done.t.wrote # NoRow
    /\ hist.done.t.deleted # {}
    /\ Len(hist.done.t.rows) > 0

\* C5: with ingests of one external_id running at once, the committed state
\* is that of the last committed ingest: one record, its manifest and mapped
\* columns, and exactly its contributors
C5_LastCommittedWins ==
    \A x \in Ingested :
        /\ Cardinality(Records(x)) = 1
        /\ \A r \in Records(x) :
              /\ r.manifest = hist.last[x].manifest
              /\ \A c \in MappedColumns :
                    r[c] = derive_fields_from_manifest(hist.last[x].manifest).rdmc_fields[c]
              /\ ExactlyContributorsOf(Store, r, hist.last[x].manifest)

\* C6: with ingests issued one after another there is one record per
\* external_id ingested and none else, and an ingest of a known external_id
\* updates its record in place
C6_UpsertByExternalId ==
    /\ \A x \in ExternalIds : Cardinality(Records(x)) = IF x \in Ingested THEN 1 ELSE 0
    /\ Cardinality(rdmc) = Cardinality(Ingested)
    /\ (Committed /\ hist.done.prev # NoPayload) =>
          /\ hist.done.t.existing # NoRow
          /\ After.id = hist.done.t.existing.id
          /\ After.created_at = hist.done.t.existing.created_at
          /\ {r.id : r \in rdmc} = {r.id : r \in hist.done.t.before.rdmc}

\* C6: the same external_id was ingested under another scheme
C6_Witness ==
    /\ Committed
    /\ hist.done.prev # NoPayload
    /\ hist.done.prev.external_id_scheme # hist.done.t.payload.external_id_scheme
    /\ Cardinality(Records(hist.done.t.payload.external_id)) = 1
    /\ After.external_id_scheme = hist.done.t.payload.external_id_scheme

\* C7, as claimed: a committed ingest with a non-null pid stores it and sets
\* pid_status to "minted"
C7_NonNullPidStored ==
    (Committed /\ hist.done.t.payload.pid # JNull) =>
        /\ After.pid = hist.done.t.payload.pid
        /\ After.pid_status = JStr(S_minted)

\* C7, amended: a committed ingest with a non-empty pid stores it and sets
\* pid_status to "minted"; with pid null or empty it leaves pid and pid_status
\* as they were ("pending" and null on a new record); pid_scheme likewise is
\* stored when non-empty and kept otherwise; a minted record stays minted and
\* keeps a pid
C7_PidForward ==
    /\ \A r \in rdmc : r.pid_status = JStr(S_minted) => Truthy(r.pid)
    /\ Committed =>
          /\ Truthy(hist.done.t.payload.pid) =>
                /\ After.pid = hist.done.t.payload.pid
                /\ After.pid_status = JStr(S_minted)
          /\ ~Truthy(hist.done.t.payload.pid) =>
                /\ After.pid = Before.pid
                /\ After.pid_status = Before.pid_status
          /\ After.pid_scheme =
                IF Truthy(hist.done.t.payload.pid_scheme)
                THEN hist.done.t.payload.pid_scheme ELSE Before.pid_scheme
          /\ Before.pid_status = JStr(S_minted) =>
                After.pid_status = JStr(S_minted) /\ Truthy(After.pid)

\* C7: an ingest without pid was committed on a minted record
C7_Witness ==
    /\ Committed
    /\ hist.done.t.existing # NoRow
    /\ hist.done.t.existing.pid_status = JStr(S_minted)
    /\ hist.done.t.payload.pid = JNull
    /\ After.pid_status = JStr(S_minted)
    /\ After.pid = P1

\* C8: GET /rdmcs/by-contributor with neither orcid nor email is answered 400
\* and runs no query
C8_MissingFilterIs400 ==
    ( /\ resp.status # 0
      /\ resp.handler # "ingest_rdmc"
      /\ resp.request.path = <<S_rdmcs, S_by_contributor>>
      /\ ~Truthy(resp.request.query.orcid)
      /\ ~Truthy(resp.request.query.email) ) =>
        /\ resp.status = 400
        /\ ~resp.queried

\* C9, as claimed: ingesting again the body last committed for an
\* external_id leaves every attribute of the record but updated_at as it was,
\* and changes updated_at
C9_OnlyUpdatedAtDiffers ==
    (Committed /\ hist.done.prev = hist.done.t.payload) =>
        /\ hist.done.t.existing # NoRow
        /\ \A c \in (DOMAIN After) \ {"updated_at"} : After[c] = hist.done.t.existing[c]
        /\ After.updated_at # hist.done.t.existing.updated_at

\* C9, amended: ingesting again the body last committed for an external_id
\* changes no attribute of the record, updated_at included (no column
\* differs, so no UPDATE is sent), adds no record, and leaves the contributor
\* list as it was: as many rows, the same positions and values
C9_Idempotent ==
    (Committed /\ hist.done.prev = hist.done.t.payload) =>
        /\ hist.done.t.existing # NoRow
        /\ After = hist.done.t.existing
        /\ rdmc = hist.done.t.before.rdmc
        /\ Cardinality(Owned(Store, After))
              = Cardinality(Owned(hist.done.t.before, hist.done.t.existing))
        /\ {RowData(c) : c \in Owned(Store, After)}
              = {RowData(c) : c \in Owned(hist.done.t.before, hist.done.t.existing)}
        /\ After.contributors_count = Cardinality(Owned(Store, After))

\* C9: the 3-contributor manifest was committed twice in a row
C9_Witness ==
    /\ Committed
    /\ hist.done.prev = hist.done.t.payload
    /\ hist.done.t.payload.manifest = ManifestA
    /\ Cardinality(Owned(Store, After)) = 3

\* C10: the mapper returns for every document
C10_MapperNeverRaises == mapped.called => ~mapped.result.raised


\* the mapper returned for the document
Returned == mapped.called /\ ~mapped.result.raised

\* the entries of the document's "Artifacts Details"
Entries == Items(artifacts_details(doc))

\* the files and the folders of an entry
Resources(art) == Items(ResourceList(art, "files")) \o Items(ResourceList(art, "folders"))

\* every "links" value of the document is a list, null or absent
LinksAreLists == \A i \in 1..Len(Entries) : Get(Entries[i], "links").t \in {"list", "null"}

\* the six flags of a mapper result
Flags(result) == [k \in DOMAIN NoFlags |-> result.rdmc_fields[k]]

\* the document with its "Artifacts Details" entries in the order p
Reordered(p) ==
    JObj([k \in DOMAIN doc.o |->
            IF k = "Artifacts Details"
            THEN JList([i \in 1..Len(Entries) |-> Entries[p[i]]])
            ELSE doc.o[k]])

People == Items(contributors(doc))

\* the fragment of each entry, in manifest order, and those that are not empty
Fragments == [i \in 1..Len(People) |-> piece(People[i])]
NonEmpty(q) == q # <<>>

\* C13: contributors_count is the number of "Contributors" entries and of
\* contributor rows, entry i giving the row at position i - 1; an entry with
\* an empty fragment still gives a row, its names the empty string when it has
\* none; contributors_text is null when no fragment is non-empty, and
\* otherwise the non-empty fragments joined by "; " in manifest order
C13_CountAndText ==
    Returned =>
        LET f == mapped.result.rdmc_fields
            rows == mapped.result.contributor_rows
            parts == SelectSeq(Fragments, NonEmpty)
        IN /\ f.contributors_count = Len(People)
           /\ Len(rows) = Len(People)
           /\ \A i \in 1..Len(rows) :
                 /\ rows[i].position = i - 1
                 /\ rows[i].first_name = Strip(Or(Get(People[i], "first_name"), EmptyStr).s)
                 /\ rows[i].last_name = Strip(Or(Get(People[i], "last_name"), EmptyStr).s)
                 /\ Fragments[i] = <<>> => (rows[i].first_name = <<>> /\ rows[i].last_name = <<>>)
           /\ (parts = <<>>) = (f.contributors_text = JNull)
           /\ f.contributors_text # EmptyStr
           /\ parts # <<>> => f.contributors_text = JStr(Join(parts, <<";", " ">>))

\* C13: of two entries the first has no fragment; both give a row and the
\* text is the second's fragment alone
C13_Witness ==
    /\ Returned
    /\ Len(People) = 2
    /\ Fragments[1] = <<>>
    /\ Fragments[2] # <<>>
    /\ mapped.result.rdmc_fields.contributors_count = 2
    /\ Len(mapped.result.contributor_rows) = 2
    /\ mapped.result.contributor_rows[1].first_name = <<>>
    /\ mapped.result.rdmc_fields.contributors_text = JStr(Fragments[2])


\* a contributor row carries the ORCID or the email the query gives
Matches(c, query) ==
    \/ Truthy(query.orcid) /\ c.orcid = query.orcid
    \/ Truthy(query.email) /\ c.email = query.email

\* the records with a contributor row that matches
HavingContributor(query) == {r \in rdmc : \E c \in Owned(Store, r) : Matches(c, query)}

\* C12: GET /rdmcs/by-contributor with orcid or email is answered with the
\* records that have a contributor row matching the ORCID or the email, each
\* once and none else, by created_at descending
C12_ByContributor ==
    ( /\ resp.status # 0
      /\ resp.handler # "ingest_rdmc"
      /\ resp.request.path = <<S_rdmcs, S_by_contributor>>
      /\ Truthy(resp.request.query.orcid) \/ Truthy(resp.request.query.email) ) =>
        /\ resp.status = 200
        /\ resp.body \in OrderedDesc(HavingContributor(resp.request.query))


\* the records of other external_ids than x, and the contributor rows they own
OtherRecords(db, x) == {r \in db.rdmc : r.external_id # x}
OtherRows(db, x) == {c \in db.contrib : \E r \in OtherRecords(db, x) : c.rdmc_id = r.id}

\* the contributor rows no record of another external_id than x owns
RowsOf(db, x) == db.contrib \ OtherRows(db, x)

\* C14: a step that changes the committed tables is the commit of an ingest,
\* and it leaves every record of another external_id and every contributor
\* row of such a record as it was, adding none; a step that delivers the
\* response of a read leaves the tables and the id sequences unchanged
C14_Frame ==
    [][ /\ (Store' # Store) =>
              \E s \in Sessions :
                 /\ Active(s)
                 /\ ~Active(s)'
                 /\ OtherRecords(Store', tx[s].payload.external_id)
                       = OtherRecords(Store, tx[s].payload.external_id)
                 /\ OtherRows(Store', tx[s].payload.external_id)
                       = OtherRows(Store, tx[s].payload.external_id)
                 /\ (contrib' \ contrib) \subseteq RowsOf(Store', tx[s].payload.external_id)
                 /\ (contrib \ contrib') \subseteq RowsOf(Store, tx[s].payload.external_id)
        /\ (resp'.status # 0 /\ resp'.handler # "ingest_rdmc") =>
              UNCHANGED <<rdmc, contrib, seq>>
      ]_vars

\* C14: an ingest of one external_id was committed, and replaced its
\* contributor rows, while a record of another external_id had contributor
\* rows; that record and its rows are as they were
C14_Witness ==
    /\ Committed
    /\ hist.done.t.existing # NoRow
    /\ hist.done.t.deleted # {}
    /\ Store # hist.done.t.before
    /\ \E r \in rdmc :
          /\ r.external_id # hist.done.t.payload.external_id
          /\ r \in hist.done.t.before.rdmc
          /\ Owned(Store, r) # {}
          /\ Owned(Store, r) = Owned(hist.done.t.before, r)

====
